---- MODULE Spec2Model ----
(***************************************************************************)
(* State-machine model of OnaniMemoChan: the guided-entry session flow     *)
(* (flow.py), the session registry (session.py), the callback handlers     *)
(* that drive them (handlers.py) and the storage calls they make           *)
(* (repositories.py).                                                      *)
(*                                                                         *)
(* Handlers are coroutines.  A handler runs atomically from one `await`    *)
(* to the next; the storage and registry calls are synchronous, so they    *)
(* never suspend a handler.  Each action below is one such atomic run.     *)
(***************************************************************************)
EXTENDS Integers, Sequences, FiniteSets, TLC

\* ---------------------------------------------------------------- bounds
MaxSessions == 2      \* Session objects created in one behaviour
NumHandlers == 2      \* callback handlers that may be in flight at once
MaxTime == 1          \* last tick of the clock
Ttl == 0              \* SessionManager._ttl, in ticks
Interval == 2         \* the sweep's interval, in ticks
MaxSweepTime == 4     \* last tick of the clock when the sweep is timed
MaxRecords == 3       \* rows of the records table when statistics are asked
StatsNow == 1000      \* the tick at which statistics are asked
MaxVersion == 3       \* largest version number a database file may carry

\* Telegram users: those who set a timezone and record entries, and those
\* who can press a button they were shown (an undo press reads its sender).
Users == {1}
Senders == {1, 2}
Handlers == 1..NumHandlers

\* ------------------------------------------------------------- optionals
\* Python's None and a present value; every nullable field uses these.
None == <<>>
Some(v) == <<v>>
Get(o) == o[1]

\* ----------------------------------------------------------------- enums
StepRATING == "RATING"
StepDURATION == "DURATION"
StepVOLUME == "VOLUME"
StepVISCOSITY == "VISCOSITY"
Step == {StepRATING, StepDURATION, StepVOLUME, StepVISCOSITY}

ActionRATING == "r"
ActionDURATION == "d"
ActionVOLUME == "v"
ActionVISCOSITY == "c"
ActionUNDO == "u"
Action == {ActionRATING, ActionDURATION, ActionVOLUME, ActionVISCOSITY, ActionUNDO}

DurationCode == {"LE5", "LE10", "LE30", "LE60", "GT60"}
VolumeCode == {"LOW", "MID", "HIGH"}
ViscosityCode == {"V1", "V2", "V3", "V4", "V5"}

\* ------------------------------------------------------------ raw inputs
\* The characters of every raw string the model feeds to a parser (TLC
\* strings are atomic, so the parsers below work on these sequences).
Chars ==
  [s \in {"1", "2", "3", "4", "5", "0", "6", "9", "-1", "abc", "", " 3", "+4",
          "1_0", "05", "_1", "4 ", "-", "LE5", "LE10", "LE30", "LE60", "GT60",
          "LOW", "MID", "HIGH", "V1", "V2", "V3", "V4", "V5", "le5", "V6"} |->
     CASE s = "1" -> <<"1">>
       [] s = "2" -> <<"2">>
       [] s = "3" -> <<"3">>
       [] s = "4" -> <<"4">>
       [] s = "5" -> <<"5">>
       [] s = "0" -> <<"0">>
       [] s = "6" -> <<"6">>
       [] s = "9" -> <<"9">>
       [] s = "-1" -> <<"-", "1">>
       [] s = "abc" -> <<"a", "b", "c">>
       [] s = "" -> <<>>
       [] s = " 3" -> <<" ", "3">>
       [] s = "+4" -> <<"+", "4">>
       [] s = "1_0" -> <<"1", "_", "0">>
       [] s = "05" -> <<"0", "5">>
       [] s = "_1" -> <<"_", "1">>
       [] s = "4 " -> <<"4", " ">>
       [] s = "-" -> <<"-">>
       [] s = "LE5" -> <<"L", "E", "5">>
       [] s = "LE10" -> <<"L", "E", "1", "0">>
       [] s = "LE30" -> <<"L", "E", "3", "0">>
       [] s = "LE60" -> <<"L", "E", "6", "0">>
       [] s = "GT60" -> <<"G", "T", "6", "0">>
       [] s = "LOW" -> <<"L", "O", "W">>
       [] s = "MID" -> <<"M", "I", "D">>
       [] s = "HIGH" -> <<"H", "I", "G", "H">>
       [] s = "V1" -> <<"V", "1">>
       [] s = "V2" -> <<"V", "2">>
       [] s = "V3" -> <<"V", "3">>
       [] s = "V4" -> <<"V", "4">>
       [] s = "V5" -> <<"V", "5">>
       [] s = "le5" -> <<"l", "e", "5">>
       [] s = "V6" -> <<"V", "6">>]

\* Values a button press carries in the full handler model: one valid value
\* per step and invalid ones; "1" and "2" are also the record ids an undo
\* button carries.
RawValues == {"1", "2", "0", "abc", "LE5", "MID", "V3"}

\* Values fed to the state machine alone (FlowSpec).
FlowValues == DOMAIN Chars

\* Timezone strings a "tz:" callback can carry: a listed zone, and a string
\* that names no zone.
ValidZones == {"Etc/GMT-8"}
ZoneInputs == ValidZones \cup {"bogus"}

\* --------------------------------------------------------- Python int(s)
DigitValue(c) ==
  CASE c = "0" -> 0 [] c = "1" -> 1 [] c = "2" -> 2 [] c = "3" -> 3
    [] c = "4" -> 4 [] c = "5" -> 5 [] c = "6" -> 6 [] c = "7" -> 7
    [] c = "8" -> 8 [] c = "9" -> 9
Digits == {"0", "1", "2", "3", "4", "5", "6", "7", "8", "9"}

RECURSIVE LStrip(_)
LStrip(cs) == IF cs # <<>> /\ Head(cs) = " " THEN LStrip(Tail(cs)) ELSE cs
RECURSIVE RStrip(_)
RStrip(cs) ==
  IF cs # <<>> /\ cs[Len(cs)] = " " THEN RStrip(SubSeq(cs, 1, Len(cs) - 1)) ELSE cs
Strip(cs) == RStrip(LStrip(cs))

\* digit (_? digit)* : underscores only between two digits
WellFormedDigits(cs) ==
  /\ cs # <<>>
  /\ \A i \in 1..Len(cs) :
       \/ cs[i] \in Digits
       \/ /\ cs[i] = "_"
          /\ i > 1 /\ i < Len(cs)
          /\ cs[i - 1] \in Digits /\ cs[i + 1] \in Digits

RECURSIVE DigitsValue(_, _)
DigitsValue(cs, acc) ==
  IF cs = <<>> THEN acc
  ELSE IF Head(cs) = "_" THEN DigitsValue(Tail(cs), acc)
  ELSE DigitsValue(Tail(cs), acc * 10 + DigitValue(Head(cs)))

\* int(value): [ok |-> FALSE] stands for ValueError.
int(value) ==
  LET cs == Strip(Chars[value])
      signed == cs # <<>> /\ Head(cs) \in {"+", "-"}
      body == IF signed THEN Tail(cs) ELSE cs
      magnitude == DigitsValue(body, 0)
  IN IF ~WellFormedDigits(body) THEN [ok |-> FALSE, val |-> 0]
     ELSE [ok |-> TRUE,
           val |-> IF signed /\ Head(cs) = "-" THEN 0 - magnitude ELSE magnitude]

\* ----------------------------------------------------------------- state
VARIABLES
  sess,       \* the Session objects ever created, by session id (1..Len)
  sessions,   \* SessionManager._sessions: the ids held by the registry
  users,      \* users table: user id -> timezone, None when there is no row
  records,    \* records table: the rows present, in insertion order
  lastrowid,  \* AUTOINCREMENT counter of the records table
  inserts,    \* per session id: how many insert_record calls returned
  pc,         \* per handler: "idle"; "finalize", suspended at the await that
              \* opens _finalize_record; "confirm", suspended at the await
              \* that sends the confirmation after the insert
  hsession,   \* per handler: the Session it holds while suspended (0: none)
  now,        \* utc_now(), in ticks
  flow,       \* the last apply_action call, when calls are being observed
  reply,      \* what the last /do, /week or /month answered, when observed
  schedule,   \* the job queue's repeating sweep, when its timing is modelled
  lock,       \* SessionManager._lock: the caller holding it, 0 when free
  call,       \* per caller: its SessionManager call in progress, when the
              \* calls are modelled with their lock steps
  schema      \* the database file: the version row of schema_meta, and how
              \* far Database.__init__ has come

vars == <<sess, sessions, users, records, lastrowid, inserts, pc, hsession, now, flow,
          reply, schedule, lock, call, schema>>

\* The Session dataclass (chat_id and message_id are display handles that no
\* code reads back, and are left out).
NewSession(user_id, t) ==
  [user_id |-> user_id,
   step |-> StepRATING,
   created_at_utc |-> t,
   rating |-> None,
   duration_code |-> None,
   volume_code |-> None,
   viscosity_code |-> None,
   finalizing |-> FALSE]

\* A Session object that nothing references any more: neither the registry
\* nor a suspended handler.  CPython frees it; the model blanks it.
Freed == NewSession(0, 0)

Referenced(registry, held) == registry \cup ({held[h] : h \in Handlers} \ {0})

Collect(objects, registry, held) ==
  [i \in 1..Len(objects) |->
     IF i \in Referenced(registry, held) THEN objects[i] ELSE Freed]

\* The observer of apply_action calls: off in Spec, on in FlowSpec.
NoCall(on) ==
  [on |-> on, called |-> FALSE, action |-> "", value |-> "", before |-> Freed,
   raised |-> FALSE, next_step |-> None]

\* The observer of command replies: off in Spec, on in CommandSpec.
NoReply(on) == [on |-> on, kind |-> "none", user_id |-> 0, record_id |-> 0, days |-> 0,
                summary |-> None]

\* The repeating job of app.py, not timed (Spec: a sweep may run at any time)
\* or timed (SweepSpec: `last` is the time of the latest run).
Schedule(on) == [on |-> on, last |-> 0]

\* A caller that is in no SessionManager call.
NoRegistryCall ==
  [op |-> "none", pc |-> "idle", id |-> 0, hit |-> 0, at |-> 0, seen |-> {}, expired |-> {}]

\* db.py: the version this code writes and accepts.
SCHEMA_VERSION == 2

\* The database once Database.__init__ has returned.
Opened == [version |-> Some(SCHEMA_VERSION), status |-> "open"]

Init ==
  /\ sess = <<>>
  /\ sessions = {}
  /\ users = [u \in Users |-> None]
  /\ records = <<>>
  /\ lastrowid = 0
  /\ inserts = [s \in 1..MaxSessions |-> 0]
  /\ pc = [h \in Handlers |-> "idle"]
  /\ hsession = [h \in Handlers |-> 0]
  /\ now = 0
  /\ flow = NoCall(FALSE)
  /\ reply = NoReply(FALSE)
  /\ schedule = Schedule(FALSE)
  /\ lock = 0
  /\ call = [t \in Handlers |-> NoRegistryCall]
  /\ schema = Opened

\* ------------------------------------------------------------ flow.py
\* A handler either returns a StepTransition or raises ValueError; in both
\* cases `session` is the Session object as the call left it.
Return(session, next_step) == [raised |-> FALSE, session |-> session, next_step |-> next_step]
Raise(session) == [raised |-> TRUE, session |-> session, next_step |-> None]

\* Mutants of handle_rating: the range test off by one at its lower end; the
\* step set to the wrong constant.
handle_rating_from_zero(session, value) ==
  LET rating == int(value) IN
  IF ~rating.ok THEN Raise(session)
  ELSE IF rating.val < 0 \/ rating.val > 5 THEN Raise(session)
  ELSE Return([session EXCEPT !.rating = Some(rating.val), !.step = StepDURATION],
              Some(StepDURATION))

handle_rating_to_volume(session, value) ==
  LET rating == int(value) IN
  IF ~rating.ok THEN Raise(session)
  ELSE IF rating.val < 1 \/ rating.val > 5 THEN Raise(session)
  ELSE Return([session EXCEPT !.rating = Some(rating.val), !.step = StepVOLUME],
              Some(StepVOLUME))

handle_rating(session, value) ==
  LET rating == int(value) IN
  IF ~rating.ok THEN Raise(session)
  ELSE IF rating.val < 1 \/ rating.val > 5 THEN Raise(session)
  ELSE Return([session EXCEPT !.rating = Some(rating.val), !.step = StepDURATION],
              Some(StepDURATION))

\* Mutant of handle_duration: the step advances, the answer is not stored.
handle_duration_not_stored(session, value) ==
  IF value \notin DurationCode THEN Raise(session)
  ELSE Return([session EXCEPT !.step = StepVOLUME], Some(StepVOLUME))

handle_duration(session, value) ==
  IF value \notin DurationCode THEN Raise(session)
  ELSE Return([session EXCEPT !.duration_code = Some(value), !.step = StepVOLUME],
              Some(StepVOLUME))

\* Mutant of handle_volume: the step is assigned before the value is parsed.
handle_volume_step_first(session, value) ==
  IF value \notin VolumeCode THEN Raise([session EXCEPT !.step = StepVISCOSITY])
  ELSE Return([session EXCEPT !.volume_code = Some(value), !.step = StepVISCOSITY],
              Some(StepVISCOSITY))

handle_volume(session, value) ==
  IF value \notin VolumeCode THEN Raise(session)
  ELSE Return([session EXCEPT !.volume_code = Some(value), !.step = StepVISCOSITY],
              Some(StepVISCOSITY))

\* Mutant of handle_viscosity: it reports a next step, as the others do.
handle_viscosity_next_step(session, value) ==
  IF value \notin ViscosityCode THEN Raise(session)
  ELSE Return([session EXCEPT !.viscosity_code = Some(value)], Some(StepVISCOSITY))

\* Mutant of the last handler: the transition is signalled, the code is not
\* stored.
handle_viscosity_not_stored(session, value) ==
  IF value \notin ViscosityCode THEN Raise(session)
  ELSE Return(session, None)

handle_viscosity(session, value) ==
  IF value \notin ViscosityCode THEN Raise(session)
  ELSE Return([session EXCEPT !.viscosity_code = Some(value)], None)

\* ACTION_HANDLERS has no entry for UNDO: the lookup raises KeyError.
apply_action(session, action, value) ==
  CASE action = ActionRATING -> handle_rating(session, value)
    [] action = ActionDURATION -> handle_duration(session, value)
    [] action = ActionVOLUME -> handle_volume(session, value)
    [] action = ActionVISCOSITY -> handle_viscosity(session, value)
    [] OTHER -> Raise(session)

\* --------------------------------------------------------- handlers.py
\* Mutant of _expected_action: every entry names the next step's action.
expected_action_shifted(step) ==
  CASE step = StepRATING -> ActionDURATION
    [] step = StepDURATION -> ActionVOLUME
    [] step = StepVOLUME -> ActionVISCOSITY
    [] step = StepVISCOSITY -> ActionVISCOSITY

expected_action(step) ==
  CASE step = StepRATING -> ActionRATING
    [] step = StepDURATION -> ActionDURATION
    [] step = StepVOLUME -> ActionVOLUME
    [] step = StepVISCOSITY -> ActionVISCOSITY

session_complete(session) ==
  /\ session.rating # None
  /\ session.duration_code # None
  /\ session.volume_code # None
  /\ session.viscosity_code # None

\* SessionManager.get: the Session stored under the id, or None.
SessionsGet(session_id) == IF session_id \in sessions THEN Some(session_id) ELSE None

\* Mutant of SessionManager.remove: the entry is returned and not deleted.
SessionsRemove_kept(registry, session_id) ==
  [session |-> IF session_id \in registry THEN Some(session_id) ELSE None,
   sessions |-> registry]

\* SessionManager.remove: self._sessions.pop(session_id, None).
SessionsRemove(registry, session_id) ==
  [session |-> IF session_id \in registry THEN Some(session_id) ELSE None,
   sessions |-> registry \ {session_id}]

\* Mutant of get_timezone: a default zone instead of None.
get_timezone_default(user_id) ==
  IF users[user_id] = None THEN Some("Etc/GMT-8") ELSE users[user_id]

\* UserRepository.get_timezone: the row's timezone, or None without a row.
get_timezone(user_id) == users[user_id]

\* ZoneInfo(timezone) raises for a string that names no zone.
ZoneInfoOk(timezone) == timezone \in ValidZones

\* tzinfo.utcoffset for the zones of ValidZones, in hours (Etc/GMT-8 is UTC+8).
UtcOffset(timezone) == IF timezone = "Etc/GMT-8" THEN 8 ELSE 0

\* Mutant of astimezone: the zone is attached, the wall clock is not moved
\* (datetime.replace(tzinfo=...)).
astimezone_replace(t, timezone) ==
  [wall |-> t, utcoffset |-> UtcOffset(timezone)]

\* now_utc.astimezone(ZoneInfo(timezone)): an aware datetime, its wall clock
\* reading and its offset from UTC.
astimezone(t, timezone) ==
  [wall |-> t + UtcOffset(timezone), utcoffset |-> UtcOffset(timezone)]

\* Mutant of the latch: the flag is never set.
Latch_never(session) == session

\* session.finalizing = True / = False in _finalize_record.
Latch(session) == [session EXCEPT !.finalizing = TRUE]
Unlatch(session) == [session EXCEPT !.finalizing = FALSE]

\* ----------------------------------------------------------- commands
\* What the observer keeps of a command's reply.
Replied(kind, user_id) ==
  IF reply.on THEN [NoReply(TRUE) EXCEPT !.kind = kind, !.user_id = user_id] ELSE reply

\* SessionManager.create builds the id from the user id, the millisecond and
\* four hex digits of uuid4.  The entries of the registry whose id the new
\* id can equal: same user, same time, the same four digits drawn.
create_collisions(user_id) ==
  {s \in sessions : sess[s].user_id = user_id /\ sess[s].created_at_utc = now}

\* self._sessions[session_id] = session: the entry stored under an equal id
\* (hit; 0 when there is none) is replaced.
SessionsCreate(registry, new, hit) == (registry \ {hit}) \cup {new}

\* /do: without a timezone the prompt to set one, and no session; otherwise
\* a new Session at RATING, stored in the registry, and the first step shown.
Do(user_id, hit) ==
  IF get_timezone(user_id) = None
    THEN /\ hit = 0
         /\ reply' = Replied("timezone_prompt", user_id)
         /\ UNCHANGED <<sess, sessions>>
    ELSE /\ Len(sess) < MaxSessions
         /\ hit \in create_collisions(user_id) \cup {0}
         /\ sessions' = SessionsCreate(sessions, Len(sess) + 1, hit)
         /\ sess' = Collect(Append(sess, NewSession(user_id, now)),
                            SessionsCreate(sessions, Len(sess) + 1, hit), hsession)
         /\ reply' = Replied("step_view", user_id)

DoCommand(user_id, hit) ==
  /\ Do(user_id, hit)
  /\ UNCHANGED <<users, records, lastrowid, inserts, pc, hsession, now, flow, schedule, lock, call, schema>>

\* timedelta(days=days), in ticks of the clock (one tick is an hour).
Days(days) == days * 24

\* datetime.isoformat() at the clock's resolution: the date as a day number
\* of fixed width (as YYYY-MM-DD is), then the hour in two digits.  Tick 0 is
\* the first hour of day EpochDay.
EpochDay == 100

isoformat(t) ==
  LET d == EpochDay + (t \div 24)
      h == t % 24
  IN <<d \div 100, (d \div 10) % 10, d % 10, h \div 10, h % 10>>

\* datetime.fromisoformat, and the .hour of its result.
parse_iso(text) == ((text[1] * 100 + text[2] * 10 + text[3]) - EpochDay) * 24 + text[4] * 10 + text[5]

hour(text) == text[4] * 10 + text[5]

\* SQLite's comparison of two TEXT values: byte by byte.
TextLess(a, b) ==
  \E i \in 1..Len(a) :
    /\ i <= Len(b)
    /\ \A j \in 1..(i - 1) : a[j] = b[j]
    /\ a[i] < b[i]

TextBetween(x, low, high) == ~TextLess(x, low) /\ ~TextLess(high, x)

\* Mutant of the range query: a row at the start of the window is left out.
list_records_in_range_open_start(user_id, start_utc, end_utc) ==
  LET rows == SelectSeq(records, LAMBDA r :
                /\ r.user_id = user_id
                /\ TextLess(isoformat(start_utc), isoformat(r.timestamp_utc))
                /\ ~TextLess(isoformat(end_utc), isoformat(r.timestamp_utc)))
      ordered == SortSeq(rows, LAMBDA x, y :
                   TextLess(isoformat(x.timestamp_utc), isoformat(y.timestamp_utc)))
  IN [i \in 1..Len(ordered) |->
        [timestamp_utc |-> isoformat(ordered[i].timestamp_utc),
         timestamp_local |-> isoformat(ordered[i].timestamp_local.wall)]]

\* Mutant of the range query: the rows come in the order of their ids.
list_records_in_range_unordered(user_id, start_utc, end_utc) ==
  LET rows == SelectSeq(records, LAMBDA r :
                /\ r.user_id = user_id
                /\ TextBetween(isoformat(r.timestamp_utc),
                               isoformat(start_utc), isoformat(end_utc)))
  IN [i \in 1..Len(rows) |->
        [timestamp_utc |-> isoformat(rows[i].timestamp_utc),
         timestamp_local |-> isoformat(rows[i].timestamp_local.wall)]]

\* RecordRepository.list_records_in_range: the two timestamp columns, as
\* stored (insert_record stores isoformat()), of the user's rows with
\* timestamp_utc BETWEEN start AND end, ORDER BY timestamp_utc ASC.
list_records_in_range(user_id, start_utc, end_utc) ==
  LET rows == SelectSeq(records, LAMBDA r :
                /\ r.user_id = user_id
                /\ TextBetween(isoformat(r.timestamp_utc),
                               isoformat(start_utc), isoformat(end_utc)))
      ordered == SortSeq(rows, LAMBDA x, y :
                   TextLess(isoformat(x.timestamp_utc), isoformat(y.timestamp_utc)))
  IN [i \in 1..Len(ordered) |->
        [timestamp_utc |-> isoformat(ordered[i].timestamp_utc),
         timestamp_local |-> isoformat(ordered[i].timestamp_local.wall)]]

\* RecordRepository.get_first_record_time: MIN(timestamp_utc) of the user's
\* rows, parsed; None without a row.
get_first_record_time(user_id) ==
  LET texts == {isoformat(records[i].timestamp_utc) :
                  i \in {j \in 1..Len(records) : records[j].user_id = user_id}}
  IN IF texts = {} THEN None
     ELSE Some(parse_iso(CHOOSE x \in texts : \A y \in texts : ~TextLess(y, x)))

\* RecordRepository.count_all_records
count_all_records(user_id) == Len(SelectSeq(records, LAMBDA r : r.user_id = user_id))

\* Mutant of the rate: a history of exactly one period is too short.
average_rate_after_period(first_record, t, period_days, user_id) ==
  IF first_record = None THEN None
  ELSE LET elapsed == t - Get(first_record) IN
       IF elapsed <= Days(period_days) THEN None
       ELSE Some([num |-> count_all_records(user_id) * Days(period_days), den |-> elapsed])

\* StatsService._average_rate.  The float total / (elapsed / period) is kept
\* as the exact fraction num / den.
average_rate(first_record, t, period_days, user_id) ==
  IF first_record = None THEN None
  ELSE LET elapsed == t - Get(first_record) IN
       IF elapsed < Days(period_days) THEN None
       ELSE IF elapsed <= 0 THEN None
       ELSE Some([num |-> count_all_records(user_id) * Days(period_days), den |-> elapsed])

\* ui.py: the four bands of the day, in the order of the dict literal
\* (the labels are the hour ranges that the source's labels end with).
Buckets == <<"(00-06)", "(06-12)", "(12-18)", "(18-24)">>

\* The branch of bucketize_hours that an hour takes.
BucketOf(h) ==
  IF 0 <= h /\ h < 6 THEN 1
  ELSE IF 6 <= h /\ h < 12 THEN 2
  ELSE IF 12 <= h /\ h < 18 THEN 3
  ELSE 4

\* Mutant of the bands: the upper edge of each band belongs to it.
bucketize_hours_closed_above(hours) ==
  LET BandOf(h) == IF h <= 6 THEN 1 ELSE IF h <= 12 THEN 2 ELSE IF h <= 18 THEN 3 ELSE 4
      count == [b \in 1..4 |-> Cardinality({i \in 1..Len(hours) : BandOf(hours[i]) = b})]
      kept == SelectSeq(<<1, 2, 3, 4>>, LAMBDA b : count[b] # 0)
  IN [i \in 1..Len(kept) |-> [name |-> Buckets[kept[i]], count |-> count[kept[i]]]]

\* bucketize_hours: the dict it returns, as its items in order: the bands
\* with a count other than zero.
bucketize_hours(hours) ==
  LET count == [b \in 1..4 |-> Cardinality({i \in 1..Len(hours) : BucketOf(hours[i]) = b})]
      kept == SelectSeq(<<1, 2, 3, 4>>, LAMBDA b : count[b] # 0)
  IN [i \in 1..Len(kept) |-> [name |-> Buckets[kept[i]], count |-> count[kept[i]]]]

\* pick_top_bucket: the names that " / ".join puts together, in order.
pick_top_bucket(bucket_counts) ==
  IF bucket_counts = <<>> THEN None
  ELSE LET max_count == CHOOSE c \in {bucket_counts[i].count : i \in DOMAIN bucket_counts} :
                          \A i \in DOMAIN bucket_counts : bucket_counts[i].count <= c
           top == SelectSeq(bucket_counts, LAMBDA item : item.count = max_count)
       IN Some([i \in 1..Len(top) |-> top[i].name])

\* sum(diffs, timedelta())
RECURSIVE Sum(_)
Sum(diffs) == IF diffs = <<>> THEN 0 ELSE Head(diffs) + Sum(Tail(diffs))

\* Mutant of the intervals: the gaps are averaged over the records.
interval_stats_per_entry(entries, t) ==
  IF Len(entries) < 2
    THEN [avg_interval |-> None,
          last_ago |-> IF entries # <<>>
                         THEN Some(t - parse_iso(entries[Len(entries)].timestamp_utc))
                         ELSE None]
    ELSE LET timestamps == [i \in 1..Len(entries) |-> parse_iso(entries[i].timestamp_utc)]
             diffs == [i \in 1..(Len(timestamps) - 1) |-> timestamps[i + 1] - timestamps[i]]
         IN [avg_interval |-> Some([num |-> Sum(diffs), den |-> Len(entries)]),
             last_ago |-> Some(t - timestamps[Len(timestamps)])]

\* StatsService._interval_stats.  The timedelta sum(diffs) / len(diffs) is
\* kept as the exact fraction num / den.
interval_stats(entries, t) ==
  IF Len(entries) < 2
    THEN [avg_interval |-> None,
          last_ago |-> IF entries # <<>>
                         THEN Some(t - parse_iso(entries[Len(entries)].timestamp_utc))
                         ELSE None]
    ELSE LET timestamps == [i \in 1..Len(entries) |-> parse_iso(entries[i].timestamp_utc)]
             diffs == [i \in 1..(Len(timestamps) - 1) |-> timestamps[i + 1] - timestamps[i]]
         IN [avg_interval |-> Some([num |-> Sum(diffs), den |-> Len(diffs)]),
             last_ago |-> Some(t - timestamps[Len(timestamps)])]

\* Mutant of the summary: the rates are taken from the window's records.
build_summary_windowed_rates(user_id, days) ==
  LET start == now - Days(days)
      entries == list_records_in_range(user_id, start, now)
      first_record == IF entries = <<>> THEN None ELSE Some(parse_iso(entries[1].timestamp_utc))
      hours == [i \in 1..Len(entries) |-> hour(entries[i].timestamp_local)]
      bucket_counts == bucketize_hours(hours)
      intervals == interval_stats(entries, now)
  IN [total |-> Len(entries),
      avg_week |-> average_rate(first_record, now, 7, user_id),
      avg_month |-> average_rate(first_record, now, 30, user_id),
      bucket_counts |-> bucket_counts,
      top_bucket |-> pick_top_bucket(bucket_counts),
      avg_interval |-> intervals.avg_interval,
      last_ago |-> intervals.last_ago]

\* StatsService.build_summary, with the StatsSummary it returns; bucket_counts
\* is the local of that name, kept beside the fields.
build_summary(user_id, days) ==
  LET start == now - Days(days)
      entries == list_records_in_range(user_id, start, now)
      first_record == get_first_record_time(user_id)
      hours == [i \in 1..Len(entries) |-> hour(entries[i].timestamp_local)]
      bucket_counts == bucketize_hours(hours)
      intervals == interval_stats(entries, now)
  IN [total |-> Len(entries),
      avg_week |-> average_rate(first_record, now, 7, user_id),
      avg_month |-> average_rate(first_record, now, 30, user_id),
      bucket_counts |-> bucket_counts,
      top_bucket |-> pick_top_bucket(bucket_counts),
      avg_interval |-> intervals.avg_interval,
      last_ago |-> intervals.last_ago]

\* What the observer keeps of a statistics request: the text sent, the
\* window, and the summary that was built.
RepliedStats(kind, user_id, days, summary) ==
  IF reply.on
    THEN [NoReply(TRUE) EXCEPT !.kind = kind, !.user_id = user_id, !.days = days,
                               !.summary = Some(summary)]
    ELSE reply

\* Mutant of the request: the "no records" text needs the rates to be
\* unavailable as well.
SendStats_unless_rated(user_id, days) ==
  /\ LET summary == build_summary(user_id, days)
     IN reply' = RepliedStats(IF summary.total = 0 /\ summary.avg_week = None
                                THEN "stats_empty" ELSE "stats",
                              user_id, days, summary)
  /\ UNCHANGED <<sess, sessions, users, records, lastrowid, inserts, pc, hsession, now, flow,
                 schedule, lock, call, schema>>

\* /week and /month (_send_stats): the summary of the window is built, and
\* either the "no records" text or the formatted summary is sent.  The
\* timezone is not read.
SendStats(user_id, days) ==
  /\ LET summary == build_summary(user_id, days)
     IN reply' = RepliedStats(IF summary.total = 0 THEN "stats_empty" ELSE "stats",
                              user_id, days, summary)
  /\ UNCHANGED <<sess, sessions, users, records, lastrowid, inserts, pc, hsession, now, flow,
                 schedule, lock, call, schema>>

\* Mutant of the selection: a string that names no zone clears the timezone.
HandleTimezoneSelection_checked(user_id, timezone) ==
  /\ users' = [users EXCEPT ![user_id] = IF ZoneInfoOk(timezone) THEN Some(timezone) ELSE None]
  /\ UNCHANGED <<sess, sessions, records, lastrowid, inserts, pc, hsession, now, flow, reply, schedule, lock, call, schema>>

\* "tz:<zone>" callback: upsert_timezone with whatever string follows "tz:".
HandleTimezoneSelection(user_id, timezone) ==
  /\ users' = [users EXCEPT ![user_id] = Some(timezone)]
  /\ UNCHANGED <<sess, sessions, records, lastrowid, inserts, pc, hsession, now, flow, reply, schedule, lock, call, schema>>

\* What the observer keeps of an undo: the text sent, the sender, the id.
RepliedUndo(success, user_id, record_id) ==
  IF reply.on
    THEN [NoReply(TRUE) EXCEPT !.kind = IF success THEN "undo_deleted" ELSE "undo_not_found",
                               !.user_id = user_id, !.record_id = record_id]
    ELSE reply

\* Mutant of the delete: the row is matched by its id alone.
soft_delete_record_by_id(record_id, user_id) ==
  LET rows == SelectSeq(records, LAMBDA r : r.id # record_id)
  IN [rows |-> rows, success |-> Len(records) - Len(rows) > 0]

\* Mutant of the delete: every row of the user goes once one matches.
soft_delete_record_all_of_user(record_id, user_id) ==
  LET matched == SelectSeq(records, LAMBDA r : r.id = record_id /\ r.user_id = user_id)
      rows == IF Len(matched) = 0 THEN records
              ELSE SelectSeq(records, LAMBDA r : r.user_id # user_id)
  IN [rows |-> rows, success |-> Len(records) - Len(rows) > 0]

\* RecordRepository.soft_delete_record:
\* DELETE FROM records WHERE id = ? AND user_id = ?, and cur.rowcount > 0.
\* `rows` is the table after the statement, `success` the value returned.
soft_delete_record(record_id, user_id) ==
  LET rows == SelectSeq(records, LAMBDA r : ~(r.id = record_id /\ r.user_id = user_id))
  IN [rows |-> rows, success |-> Len(records) - Len(rows) > 0]

\* Mutant of the undo: the record goes only while its session is registered.
HandleUndo_of_live_session(from_user, session_id, value) ==
  LET record_id == int(value) IN
  IF ~record_id.ok \/ session_id \notin sessions
    THEN UNCHANGED <<records, reply>>
    ELSE LET deleted == soft_delete_record(record_id.val, from_user)
         IN /\ records' = deleted.rows
            /\ reply' = RepliedUndo(deleted.success, from_user, record_id.val)

\* _handle_undo, entered from _handle_session_action for the UNDO tag before
\* any session is looked up: session_id is a parameter the body never reads.
\* The text that replaces the message says whether a row was deleted.
HandleUndo(from_user, session_id, value) ==
  LET record_id == int(value) IN
  IF ~record_id.ok
    THEN UNCHANGED <<records, reply>>
    ELSE LET deleted == soft_delete_record(record_id.val, from_user)
         IN /\ records' = deleted.rows
            /\ reply' = RepliedUndo(deleted.success, from_user, record_id.val)

\* What the observer keeps of one apply_action call.
Observe(session, action, value, transition) ==
  IF flow.on
    THEN [on |-> TRUE, called |-> TRUE, action |-> action, value |-> value,
          before |-> session, raised |-> transition.raised,
          next_step |-> transition.next_step]
    ELSE flow

\* _handle_session_action, from its entry to its first suspension.  `parts`
\* is data.split(":", 2).  Only the path into _finalize_record leaves the
\* handler suspended (at the `await query.answer()` that opens it); every
\* other path only answers the query or redraws the prompt.
HandleSessionAction(h, query) ==
  /\ pc[h] = "idle"
  /\ \A g \in Handlers : g < h => pc[g] # "idle"
  /\ IF Len(query.parts) # 3
       THEN UNCHANGED vars
     ELSE LET parts == query.parts
              from_user == query.from_user
              action_raw == parts[1]
              session_id == parts[2]
              value == parts[3]
              found == SessionsGet(session_id)
          IN
          IF action_raw \notin Action
            THEN UNCHANGED vars
          ELSE IF action_raw = ActionUNDO
            THEN /\ HandleUndo(from_user, session_id, value)
                 /\ UNCHANGED <<sess, sessions, users, lastrowid, inserts, pc, hsession, now, flow, schedule, lock, call, schema>>
          ELSE IF found = None
            THEN UNCHANGED vars
          ELSE IF sess[Get(found)].finalizing
            THEN UNCHANGED vars
          ELSE IF expected_action(sess[Get(found)].step) # action_raw
            THEN UNCHANGED vars
          ELSE LET session == sess[Get(found)]
                   transition == apply_action(session, action_raw, value)
               IN
               /\ sess' = [sess EXCEPT ![Get(found)] = transition.session]
               /\ flow' = Observe(session, action_raw, value, transition)
               /\ IF ~transition.raised /\ transition.next_step = None
                    THEN /\ pc' = [pc EXCEPT ![h] = "finalize"]
                         /\ hsession' = [hsession EXCEPT ![h] = Get(found)]
                    ELSE UNCHANGED <<pc, hsession>>
               /\ UNCHANGED <<sessions, users, records, lastrowid, inserts, now, reply, schedule, lock, call, schema>>

\* _finalize_record after its opening await returned: latch, checks, insert,
\* remove, up to the await that sends the confirmation.  insert_ok is whether
\* insert_record returns or raises.  The failure branches end the handler
\* (their last await only sends a message).
FinalizeRecord(h, insert_ok) ==
  /\ pc[h] = "finalize"
  /\ LET s == hsession[h]
         session == Latch(sess[s])
         timezone == get_timezone(session.user_id)
         released == [hsession EXCEPT ![h] = 0]
         idle == [pc EXCEPT ![h] = "idle"]
     IN
     IF ~session_complete(session)
       THEN /\ sess' = Collect([sess EXCEPT ![s] = Unlatch(session)], sessions, released)
            /\ hsession' = released
            /\ pc' = idle
            /\ UNCHANGED <<sessions, records, lastrowid, inserts>>
     ELSE IF timezone = None
       THEN /\ sess' = Collect([sess EXCEPT ![s] = Unlatch(session)], sessions, released)
            /\ hsession' = released
            /\ pc' = idle
            /\ UNCHANGED <<sessions, records, lastrowid, inserts>>
     ELSE IF ~ZoneInfoOk(Get(timezone))
       THEN \* ZoneInfo raises outside the try: the latch stays set
            /\ sess' = Collect([sess EXCEPT ![s] = session], sessions, released)
            /\ hsession' = released
            /\ pc' = idle
            /\ UNCHANGED <<sessions, records, lastrowid, inserts>>
     ELSE IF ~insert_ok
       THEN /\ sess' = Collect([sess EXCEPT ![s] = Unlatch(session)], sessions, released)
            /\ hsession' = released
            /\ pc' = idle
            /\ UNCHANGED <<sessions, records, lastrowid, inserts>>
     ELSE /\ records' = Append(records,
               [id |-> lastrowid + 1,
                user_id |-> session.user_id,
                timestamp_utc |-> now,
                timezone |-> Get(timezone),
                timestamp_local |-> astimezone(now, Get(timezone)),
                rating |-> Get(session.rating),
                duration_code |-> Get(session.duration_code),
                volume_code |-> Get(session.volume_code),
                viscosity_code |-> Get(session.viscosity_code)])
          /\ lastrowid' = lastrowid + 1
          /\ inserts' = [inserts EXCEPT ![s] = @ + 1]
          /\ sessions' = SessionsRemove(sessions, s).sessions
          /\ sess' = [sess EXCEPT ![s] = session]
          /\ pc' = [pc EXCEPT ![h] = "confirm"]
          /\ UNCHANGED hsession
  /\ flow' = NoCall(flow.on)
  /\ UNCHANGED <<users, now, reply, schedule, lock, call, schema>>

\* The handler ends: the confirmation was sent (or sending it raised), or
\* the `await query.answer()` that opens _finalize_record raised before the
\* latch was set.
HandlerEnds(h) ==
  /\ pc[h] \in {"finalize", "confirm"}
  /\ pc' = [pc EXCEPT ![h] = "idle"]
  /\ hsession' = [hsession EXCEPT ![h] = 0]
  /\ sess' = Collect(sess, sessions, [hsession EXCEPT ![h] = 0])
  /\ flow' = NoCall(flow.on)
  /\ UNCHANGED <<sessions, users, records, lastrowid, inserts, now, reply, schedule, lock, call, schema>>

\* Mutant of _handle_session_cancel: a session being finalized is kept.
HandleSessionCancel_unless_finalizing(session_id) ==
  /\ sessions' = IF session_id \in sessions /\ sess[session_id].finalizing
                   THEN sessions
                   ELSE SessionsRemove(sessions, session_id).sessions
  /\ sess' = Collect(sess, sessions', hsession)
  /\ UNCHANGED <<users, records, lastrowid, inserts, pc, hsession, now, flow, reply, schedule, lock, call, schema>>

\* Mutant of the cancel: the user's latest record goes with the session.
HandleSessionCancel_with_record(session_id) ==
  /\ sessions' = SessionsRemove(sessions, session_id).sessions
  /\ sess' = Collect(sess, SessionsRemove(sessions, session_id).sessions, hsession)
  /\ records' = IF records = <<>> THEN records ELSE SubSeq(records, 1, Len(records) - 1)
  /\ UNCHANGED <<users, lastrowid, inserts, pc, hsession, now, flow, reply, schedule, lock, call, schema>>

\* "x:<id>" callback: unconditional remove.
HandleSessionCancel(session_id) ==
  /\ sessions' = SessionsRemove(sessions, session_id).sessions
  /\ sess' = Collect(sess, SessionsRemove(sessions, session_id).sessions, hsession)
  /\ UNCHANGED <<users, records, lastrowid, inserts, pc, hsession, now, flow, reply, schedule, lock, call, schema>>

\* ------------------------------------------------------ periodic sweep
\* Mutants of the age test: the bound included; the bound one tick late.
expired_from_ttl(session, t, ttl) == t - session.created_at_utc >= ttl

expired_late(session, t, ttl) == t - session.created_at_utc > ttl + 1

\* Mutant of the expiry test: a session with the latch set is kept.
expired_unless_finalizing(session, t, ttl) ==
  t - session.created_at_utc > ttl /\ ~session.finalizing

\* now - session.created_at_utc > self._ttl
expired(session, t, ttl) == t - session.created_at_utc > ttl

\* SessionManager.cleanup_expired: the ids it pops, and the count it returns.
cleanup_expired ==
  {s \in sessions : expired(sess[s], now, Ttl)}

cleanup_count == Cardinality(cleanup_expired)

\* run_repeating(cleanup_sessions, interval, first=interval): a run is due at
\* every multiple of the interval, once.
SweepDue == now > 0 /\ now % Interval = 0 /\ schedule.last < now

\* cleanup_sessions, the job.  When the schedule is timed it runs at its
\* due time, before the clock moves on.
CleanupSessions ==
  /\ schedule.on => SweepDue
  /\ sessions' = sessions \ cleanup_expired
  /\ sess' = Collect(sess, sessions \ cleanup_expired, hsession)
  /\ schedule' = IF schedule.on THEN [schedule EXCEPT !.last = now] ELSE schedule
  /\ UNCHANGED <<users, records, lastrowid, inserts, pc, hsession, now, flow, reply, lock, call, schema>>

\* ---------------------------------------------------------- environment
Tick ==
  /\ now < (IF schedule.on THEN MaxSweepTime ELSE MaxTime)
  /\ schedule.on => ~SweepDue
  /\ now' = now + 1
  /\ UNCHANGED <<sess, sessions, users, records, lastrowid, inserts, pc, hsession, flow, reply, schedule, lock, call, schema>>

\* The users table lives in the SQLite file; a row can disappear through
\* another connection (the program itself never deletes one).  The foreign
\* key of records forbids it while the user has records.
UserRowDeleted(user_id) ==
  /\ users[user_id] # None
  /\ \A i \in 1..Len(records) : records[i].user_id # user_id
  /\ users' = [users EXCEPT ![user_id] = None]
  /\ UNCHANGED <<sess, sessions, records, lastrowid, inserts, pc, hsession, now, flow, reply, schedule, lock, call, schema>>

\* ------------------------------------- SessionManager calls, step by step
\* The four methods as callers on threads would run them: what precedes the
\* `with self._lock` (RegistryCall), the acquire, the map operation, the
\* release.  call[t].seen is the map as the caller found it on acquiring.
RegistryOps == {"create", "get", "remove", "cleanup_expired"}

\* The call is made: create builds its Session (lines 32-39), cleanup_expired
\* reads the clock (line 53); then the caller is at the `with`.
RegistryCall(t, op, id) ==
  /\ call[t].pc = "idle"
  /\ IF op = "create"
       THEN /\ id = Len(sess) + 1
            /\ Len(sess) < MaxSessions
            /\ sess' = Append(sess, NewSession(1, now))
       ELSE UNCHANGED sess
  /\ call' = [call EXCEPT ![t] = [NoRegistryCall EXCEPT !.op = op, !.pc = "acquire",
                                                         !.id = id, !.at = now]]
  /\ UNCHANGED <<sessions, users, records, lastrowid, inserts, pc, hsession, now, flow,
                 reply, schedule, lock, schema>>

\* Mutant of the acquire: the caller enters without waiting for the lock.
Acquire_unguarded(t) ==
  /\ call[t].pc = "acquire"
  /\ lock' = t
  /\ call' = [call EXCEPT ![t].pc = "locked", ![t].seen = sessions]
  /\ UNCHANGED <<sess, sessions, users, records, lastrowid, inserts, pc, hsession, now, flow,
                 reply, schedule, schema>>

\* with self._lock: entered when the lock is free.
Acquire(t) ==
  /\ call[t].pc = "acquire"
  /\ lock = 0
  /\ lock' = t
  /\ call' = [call EXCEPT ![t].pc = "locked", ![t].seen = sessions]
  /\ UNCHANGED <<sess, sessions, users, records, lastrowid, inserts, pc, hsession, now, flow,
                 reply, schedule, schema>>

\* The map operation inside the lock: the assignment of create (hit is the
\* entry stored under an equal id, if any), the get, the pop of remove, the
\* loop of cleanup_expired that collects the expired ids.
Operate(t, hit) ==
  /\ call[t].pc = "locked"
  /\ CASE call[t].op = "create" ->
            /\ hit \in {s \in sessions : /\ sess[s].user_id = sess[call[t].id].user_id
                                          /\ sess[s].created_at_utc = sess[call[t].id].created_at_utc}
                        \cup {0}
            /\ sessions' = SessionsCreate(sessions, call[t].id, hit)
            /\ call' = [call EXCEPT ![t].pc = "done", ![t].hit = hit]
       [] call[t].op = "get" ->
            /\ hit = 0
            /\ UNCHANGED sessions
            /\ call' = [call EXCEPT ![t].pc = "done"]
       [] call[t].op = "remove" ->
            /\ hit = 0
            /\ sessions' = SessionsRemove(sessions, call[t].id).sessions
            /\ call' = [call EXCEPT ![t].pc = "done"]
       [] call[t].op = "cleanup_expired" ->
            /\ hit = 0
            /\ UNCHANGED sessions
            /\ call' = [call EXCEPT ![t].pc = "scanned",
                                    ![t].expired = {s \in sessions : expired(sess[s], call[t].at, Ttl)}]
  /\ UNCHANGED <<sess, users, records, lastrowid, inserts, pc, hsession, now, flow,
                 reply, schedule, lock, schema>>

\* The second loop of cleanup_expired: the collected ids are popped.
SweepPop(t) ==
  /\ call[t].pc = "scanned"
  /\ sessions' = sessions \ call[t].expired
  /\ call' = [call EXCEPT ![t].pc = "done"]
  /\ UNCHANGED <<sess, users, records, lastrowid, inserts, pc, hsession, now, flow,
                 reply, schedule, lock, schema>>

\* The end of the `with` block.
Release(t) ==
  /\ call[t].pc = "done"
  /\ lock' = 0
  /\ call' = [call EXCEPT ![t] = NoRegistryCall]
  /\ UNCHANGED <<sess, sessions, users, records, lastrowid, inserts, pc, hsession, now, flow,
                 reply, schedule, schema>>

\* --------------------------------------------------------------- db.py
\* Database._ensure_schema on a file whose schema_meta holds `stored` (None:
\* no row): whether it raises, and the version the file is left with.
ensure_schema(stored) ==
  IF stored = None
    THEN [raised |-> FALSE, version |-> Some(SCHEMA_VERSION)]
  ELSE IF Get(stored) = 1 /\ SCHEMA_VERSION = 2
    THEN [raised |-> FALSE, version |-> Some(SCHEMA_VERSION)]
  ELSE IF Get(stored) = 2 /\ SCHEMA_VERSION = 2
    THEN [raised |-> FALSE, version |-> stored]
  ELSE IF Get(stored) # SCHEMA_VERSION
    THEN [raised |-> TRUE, version |-> stored]
  ELSE [raised |-> FALSE, version |-> stored]

\* build_application opening the database: Database.__init__ returns, or the
\* RuntimeError of _ensure_schema ends the start.
EnsureSchema ==
  /\ schema.status = "closed"
  /\ LET outcome == ensure_schema(schema.version)
     IN schema' = [version |-> outcome.version,
                   status |-> IF outcome.raised THEN "aborted" ELSE "open"]
  /\ UNCHANGED <<sess, sessions, users, records, lastrowid, inserts, pc, hsession, now, flow,
                 reply, schedule, lock, call>>

\* ------------------------------------------------------- specification
\* Callback queries: a press on a step button (any tag, also one that is no
\* Action; any session id, also one never issued; any value), an undo press
\* by any sender, and data with too few fields.  The code reads from_user
\* only for an undo, so the step presses are drawn with one sender, but for
\* the presses of another sender that carry an issued id and a value that
\* the step accepts.
SessionIdInputs == 0..MaxSessions
ForeignPresses ==
  {[from_user |-> 2, parts |-> <<p[1], s, p[2]>>] :
     p \in {<<ActionRATING, "1">>, <<ActionDURATION, "LE5">>, <<ActionVOLUME, "MID">>,
            <<ActionVISCOSITY, "V3">>},
     s \in 1..MaxSessions}

QueryInputs ==
  ForeignPresses \cup
  {[from_user |-> 1, parts |-> <<a, s, v>>] :
     a \in (Action \ {ActionUNDO}) \cup {"z"}, s \in SessionIdInputs, v \in RawValues}
  \cup {[from_user |-> u, parts |-> <<ActionUNDO, s, v>>] :
           u \in Senders, s \in SessionIdInputs, v \in RawValues}
  \cup {[from_user |-> 1, parts |-> <<ActionRATING, 1>>]}

StatsDays == {7, 30}

Next ==
  \/ \E u \in Users, hit \in SessionIdInputs : DoCommand(u, hit)
  \/ \E u \in Users, days \in StatsDays : SendStats(u, days)
  \/ \E u \in Users, z \in ZoneInputs : HandleTimezoneSelection(u, z)
  \/ \E h \in Handlers, query \in QueryInputs : HandleSessionAction(h, query)
  \/ \E h \in Handlers, ok \in BOOLEAN : FinalizeRecord(h, ok)
  \/ \E h \in Handlers : HandlerEnds(h)
  \/ \E s \in SessionIdInputs : HandleSessionCancel(s)
  \/ CleanupSessions
  \/ Tick
  \/ \E u \in Users : UserRowDeleted(u)

Spec == Init /\ [][Next]_vars

\* The program alone: every handler and job of Spec, and nothing that
\* reaches the SQLite file from outside.
ProgramNext ==
  \/ \E u \in Users, hit \in SessionIdInputs : DoCommand(u, hit)
  \/ \E u \in Users, days \in StatsDays : SendStats(u, days)
  \/ \E u \in Users, z \in ZoneInputs : HandleTimezoneSelection(u, z)
  \/ \E h \in Handlers, query \in QueryInputs : HandleSessionAction(h, query)
  \/ \E h \in Handlers, ok \in BOOLEAN : FinalizeRecord(h, ok)
  \/ \E h \in Handlers : HandlerEnds(h)
  \/ \E s \in SessionIdInputs : HandleSessionCancel(s)
  \/ CleanupSessions
  \/ Tick

ProgramSpec == Init /\ [][ProgramNext]_vars

\* The state machine on its own: one user with a timezone, one session, and
\* step presses that carry every value of FlowValues, with each apply_action
\* call observed.
FlowQueryInputs ==
  {[from_user |-> 1, parts |-> <<a, 1, v>>] :
     a \in Action \ {ActionUNDO}, v \in FlowValues}

FlowInit ==
  /\ sess = <<NewSession(1, 0)>>
  /\ sessions = {1}
  /\ users = [u \in Users |-> Some("Etc/GMT-8")]
  /\ records = <<>>
  /\ lastrowid = 0
  /\ inserts = [s \in 1..MaxSessions |-> 0]
  /\ pc = [h \in Handlers |-> "idle"]
  /\ hsession = [h \in Handlers |-> 0]
  /\ now = 0
  /\ flow = NoCall(TRUE)
  /\ reply = NoReply(FALSE)
  /\ schedule = Schedule(FALSE)
  /\ lock = 0
  /\ call = [t \in Handlers |-> NoRegistryCall]
  /\ schema = Opened

FlowNext ==
  \/ \E query \in FlowQueryInputs : HandleSessionAction(1, query)
  \/ \E ok \in BOOLEAN : FinalizeRecord(1, ok)
  \/ HandlerEnds(1)

FlowSpec == FlowInit /\ [][FlowNext]_vars

\* The commands with their replies observed, one callback handler at a time.
CommandInit ==
  /\ sess = <<>>
  /\ sessions = {}
  /\ users = [u \in Users |-> None]
  /\ records = <<>>
  /\ lastrowid = 0
  /\ inserts = [s \in 1..MaxSessions |-> 0]
  /\ pc = [h \in Handlers |-> "idle"]
  /\ hsession = [h \in Handlers |-> 0]
  /\ now = 0
  /\ flow = NoCall(FALSE)
  /\ reply = NoReply(TRUE)
  /\ schedule = Schedule(FALSE)
  /\ lock = 0
  /\ call = [t \in Handlers |-> NoRegistryCall]
  /\ schema = Opened

CommandNext ==
  \/ \E u \in Users, hit \in SessionIdInputs : DoCommand(u, hit)
  \/ \E u \in Users, days \in StatsDays : SendStats(u, days)
  \/ \E u \in Users, z \in ZoneInputs : HandleTimezoneSelection(u, z)
  \/ \E query \in QueryInputs : HandleSessionAction(1, query)
  \/ \E ok \in BOOLEAN : FinalizeRecord(1, ok)
  \/ HandlerEnds(1)
  \/ \E u \in Users : UserRowDeleted(u)

CommandSpec == CommandInit /\ [][CommandNext]_vars

\* The sweep on its schedule: a user with a timezone, the clock running to
\* MaxSweepTime, and the job run at every multiple of Interval.
SweepInit ==
  /\ sess = <<>>
  /\ sessions = {}
  /\ users = [u \in Users |-> Some("Etc/GMT-8")]
  /\ records = <<>>
  /\ lastrowid = 0
  /\ inserts = [s \in 1..MaxSessions |-> 0]
  /\ pc = [h \in Handlers |-> "idle"]
  /\ hsession = [h \in Handlers |-> 0]
  /\ now = 0
  /\ flow = NoCall(FALSE)
  /\ reply = NoReply(FALSE)
  /\ schedule = Schedule(TRUE)
  /\ lock = 0
  /\ call = [t \in Handlers |-> NoRegistryCall]
  /\ schema = Opened

SweepNext ==
  \/ \E u \in Users, hit \in SessionIdInputs : DoCommand(u, hit)
  \/ \E query \in QueryInputs : HandleSessionAction(1, query)
  \/ \E ok \in BOOLEAN : FinalizeRecord(1, ok)
  \/ HandlerEnds(1)
  \/ CleanupSessions
  \/ Tick

SweepSpec == SweepInit /\ [][SweepNext]_vars

\* The statistics engine on its own: tables of up to MaxRecords rows of two
\* users, each some hours before the request (at the edges of the two
\* windows, inside and outside them), and the two commands with the summary
\* observed.  The rows are in the order of their ids, which need not be the
\* order of their times: utc_now() reads the wall clock, which can be set
\* back between two inserts.
StatsAges == {0, 1, 6, 12, 18, 167, 168, 169, 720, 721}

\* The rows of a table: those of user 1 at every age, those of the other
\* user inside the week and at its edge.
StatsRows == ({1} \X StatsAges) \cup ({2} \X {1, 168})

StatsRecord(id, user_id, t) ==
  [id |-> id,
   user_id |-> user_id,
   timestamp_utc |-> t,
   timezone |-> "Etc/GMT-8",
   timestamp_local |-> astimezone(t, "Etc/GMT-8"),
   rating |-> 3,
   duration_code |-> "LE5",
   volume_code |-> "MID",
   viscosity_code |-> "V3"]

StatsTables ==
  {[i \in 1..Len(rows) |-> StatsRecord(i, rows[i][1], StatsNow - rows[i][2])] :
     rows \in UNION {[1..n -> StatsRows] : n \in 0..MaxRecords}}

StatsInit ==
  /\ sess = <<>>
  /\ sessions = {}
  /\ users = [u \in Senders |-> Some("Etc/GMT-8")]
  /\ records \in StatsTables
  /\ lastrowid = Len(records)
  /\ inserts = [s \in 1..MaxSessions |-> 0]
  /\ pc = [h \in Handlers |-> "idle"]
  /\ hsession = [h \in Handlers |-> 0]
  /\ now = StatsNow
  /\ flow = NoCall(FALSE)
  /\ reply = NoReply(TRUE)
  /\ schedule = Schedule(FALSE)
  /\ lock = 0
  /\ call = [t \in Handlers |-> NoRegistryCall]
  /\ schema = Opened

StatsNext == \E u \in Senders, days \in StatsDays : SendStats(u, days)

StatsSpec == StatsInit /\ [][StatsNext]_vars

\* The start of the program on a database file of any stored version, and
\* the commands once the database is open.
StoredVersions == {None} \cup {Some(v) : v \in 0..MaxVersion}

StartupInit ==
  /\ sess = <<>>
  /\ sessions = {}
  /\ users = [u \in Users |-> None]
  /\ records = <<>>
  /\ lastrowid = 0
  /\ inserts = [s \in 1..MaxSessions |-> 0]
  /\ pc = [h \in Handlers |-> "idle"]
  /\ hsession = [h \in Handlers |-> 0]
  /\ now = 0
  /\ flow = NoCall(FALSE)
  /\ reply = NoReply(FALSE)
  /\ schedule = Schedule(FALSE)
  /\ lock = 0
  /\ call = [t \in Handlers |-> NoRegistryCall]
  /\ schema \in [version : StoredVersions, status : {"closed"}]

StartupNext ==
  \/ EnsureSchema
  \/ schema.status = "open" /\ \E u \in Users, hit \in SessionIdInputs : DoCommand(u, hit)
  \/ schema.status = "open" /\ \E u \in Users, z \in ZoneInputs : HandleTimezoneSelection(u, z)
  \/ schema.status = "open" /\ \E query \in QueryInputs : HandleSessionAction(1, query)
  \/ schema.status = "open" /\ \E ok \in BOOLEAN : FinalizeRecord(1, ok)
  \/ schema.status = "open" /\ HandlerEnds(1)

StartupSpec == StartupInit /\ [][StartupNext]_vars

\* The sweep on its schedule with the clock and the job queue running on:
\* time advances and a due sweep runs.  The user's stored timezone is a zone
\* or a string that names none.  The clock of the model stops at
\* MaxSweepTime, so sessions are created only while a sweep at which they
\* are past the TTL is still to come.
LastSweep == (MaxSweepTime \div Interval) * Interval

SweepFairInit ==
  /\ sess = <<>>
  /\ sessions = {}
  /\ users \in [Users -> {Some(z) : z \in ZoneInputs}]
  /\ records = <<>>
  /\ lastrowid = 0
  /\ inserts = [s \in 1..MaxSessions |-> 0]
  /\ pc = [h \in Handlers |-> "idle"]
  /\ hsession = [h \in Handlers |-> 0]
  /\ now = 0
  /\ flow = NoCall(FALSE)
  /\ reply = NoReply(FALSE)
  /\ schedule = Schedule(TRUE)
  /\ lock = 0
  /\ call = [t \in Handlers |-> NoRegistryCall]
  /\ schema = Opened

SweepFairNext ==
  \/ now + Ttl < LastSweep /\ \E u \in Users, hit \in SessionIdInputs : DoCommand(u, hit)
  \/ \E query \in QueryInputs : HandleSessionAction(1, query)
  \/ \E ok \in BOOLEAN : FinalizeRecord(1, ok)
  \/ HandlerEnds(1)
  \/ CleanupSessions
  \/ Tick

SweepFairSpec ==
  SweepFairInit /\ [][SweepFairNext]_vars /\ WF_vars(Tick) /\ WF_vars(CleanupSessions)

\* The registry under concurrent callers.
LockNext ==
  \/ \E t \in Handlers, op \in RegistryOps, id \in 1..MaxSessions : RegistryCall(t, op, id)
  \/ \E t \in Handlers : Acquire(t)
  \/ \E t \in Handlers, hit \in SessionIdInputs : Operate(t, hit)
  \/ \E t \in Handlers : SweepPop(t)
  \/ \E t \in Handlers : Release(t)
  \/ Tick

LockSpec == Init /\ [][LockNext]_vars

\* =================================================================
\* Properties
\* =================================================================
SessionIds == 1..MaxSessions

\* The tag of the buttons each step shows (ui.py: the step keyboards).
TagOfStep ==
  [st \in Step |->
     CASE st = StepRATING -> "r" [] st = StepDURATION -> "d"
       [] st = StepVOLUME -> "v" [] st = StepVISCOSITY -> "c"]

\* C1: under every interleaving of the callback handlers, at most one record
\* is inserted for a session (two interleaved presses of the terminal button
\* give one record, not two).
C1_AtMostOneInsertPerSession ==
  \A s \in SessionIds : inserts[s] <= 1

\* C2: the step of a session in the registry only moves forward, one step at
\* a time, in the order RATING, DURATION, VOLUME, VISCOSITY.
C2_NextStep ==
  {<<StepRATING, StepDURATION>>, <<StepDURATION, StepVOLUME>>, <<StepVOLUME, StepVISCOSITY>>}

C2_StepOnlyForward ==
  [][\A s \in sessions \cap sessions' :
       \/ sess'[s].step = sess[s].step
       \/ <<sess[s].step, sess'[s].step>> \in C2_NextStep]_vars

C2_Witness ==
  \E s \in sessions : sess[s].step = StepVISCOSITY /\ sess[s].viscosity_code = None

\* C3 (as stated): in every session of the registry each answer field is
\* non-null exactly for the steps already completed and null for the current
\* and later steps, so viscosity_code is null while step = VISCOSITY.
C3_FieldsNullFromCurrentStep ==
  \A s \in sessions :
    /\ (sess[s].rating # None) <=> (sess[s].step # StepRATING)
    /\ (sess[s].duration_code # None) <=> (sess[s].step \in {StepVOLUME, StepVISCOSITY})
    /\ (sess[s].volume_code # None) <=> (sess[s].step = StepVISCOSITY)
    /\ sess[s].viscosity_code = None

\* C3 (amended): rating, duration_code and volume_code are non-null exactly
\* for the steps before the current one; viscosity_code is null before step
\* VISCOSITY, and at step VISCOSITY it is non-null once a value was accepted.
C3_FieldsFollowStep ==
  \A s \in sessions :
    /\ (sess[s].rating # None) <=> (sess[s].step # StepRATING)
    /\ (sess[s].duration_code # None) <=> (sess[s].step \in {StepVOLUME, StepVISCOSITY})
    /\ (sess[s].volume_code # None) <=> (sess[s].step = StepVISCOSITY)
    /\ (sess[s].viscosity_code # None) => (sess[s].step = StepVISCOSITY)

\* A session left in the registry by a finalize that failed: no handler
\* holds it, its latch is clear, and its viscosity_code is set.
C3_Witness ==
  \E s \in sessions :
    /\ \A h \in Handlers : hsession[h] # s
    /\ sess[s].step = StepVISCOSITY
    /\ sess[s].viscosity_code # None
    /\ ~sess[s].finalizing

\* C4: a press whose tag is not the one of the session's current step changes
\* nothing: not the session's step, fields or latch, not the registry, and no
\* record is inserted.
C4_Mismatched(query) ==
  /\ Len(query.parts) = 3
  /\ query.parts[2] \in sessions
  /\ query.parts[1] # TagOfStep[sess[query.parts[2]].step]

C4_MismatchedTagIsNoOp ==
  [][\/ UNCHANGED <<sess, sessions, inserts, lastrowid, pc, hsession>>
     \/ \A h \in Handlers, query \in QueryInputs :
          ~(C4_Mismatched(query) /\ HandleSessionAction(h, query))]_vars

\* A session that has advanced, so that the buttons of its earlier prompt
\* are stale.
C4_Witness ==
  \E s \in sessions : sess[s].step = StepVOLUME /\ ~sess[s].finalizing

\* C5: at step RATING a RATING press is accepted iff its value is an integer
\* literal in 1..5; then rating is that integer and step is DURATION; for
\* every other value the call raises and the session is as it was.
C5_IntegerOf ==
  "1" :> 1 @@ "2" :> 2 @@ "3" :> 3 @@ "4" :> 4 @@ "5" :> 5 @@ "0" :> 0 @@ "6" :> 6
    @@ "9" :> 9 @@ "-1" :> (0 - 1) @@ " 3" :> 3 @@ "+4" :> 4 @@ "1_0" :> 10
    @@ "05" :> 5 @@ "4 " :> 4

C5_RatingAcceptsOneToFive ==
  (flow.called /\ flow.action = ActionRATING /\ flow.before.step = StepRATING) =>
    LET accepted == /\ flow.value \in DOMAIN C5_IntegerOf
                    /\ C5_IntegerOf[flow.value] \in 1..5
    IN IF accepted
         THEN /\ ~flow.raised
              /\ sess[1] = [flow.before EXCEPT !.rating = Some(C5_IntegerOf[flow.value]),
                                               !.step = StepDURATION]
         ELSE /\ flow.raised
              /\ sess[1] = flow.before

C5_Witness ==
  /\ flow.called /\ flow.action = ActionRATING /\ flow.value = "05"
  /\ sess[1].rating = Some(5) /\ sess[1].step = StepDURATION

\* C6: a DURATION, VOLUME or VISCOSITY press whose value is no member of the
\* step's enumeration raises, and handling it changes nothing: not the
\* session, not the registry, not the records.
C6_EnumOf ==
  [a \in {"d", "v", "c"} |->
     CASE a = "d" -> {"LE5", "LE10", "LE30", "LE60", "GT60"}
       [] a = "v" -> {"LOW", "MID", "HIGH"}
       [] a = "c" -> {"V1", "V2", "V3", "V4", "V5"}]

C6_Invalid(query) ==
  /\ Len(query.parts) = 3
  /\ query.parts[2] \in sessions
  /\ ~sess[query.parts[2]].finalizing
  /\ query.parts[1] \in {"d", "v", "c"}
  /\ query.parts[1] = TagOfStep[sess[query.parts[2]].step]
  /\ query.parts[3] \notin C6_EnumOf[query.parts[1]]

C6_InvalidCodeIsSwallowed ==
  [][/\ \A query \in QueryInputs :
          C6_Invalid(query) =>
            LET session == sess[query.parts[2]]
                transition == apply_action(session, query.parts[1], query.parts[3])
            IN transition.raised /\ transition.session = session
     /\ \/ UNCHANGED <<sess, sessions, records, inserts, lastrowid, pc, hsession>>
        \/ \A h \in Handlers, query \in QueryInputs :
             ~(C6_Invalid(query) /\ HandleSessionAction(h, query))]_vars

C6_Witness ==
  \E s \in sessions : sess[s].step = StepDURATION /\ ~sess[s].finalizing

\* C7: an accepted RATING, DURATION, VOLUME press returns next_step DURATION,
\* VOLUME, VISCOSITY; an accepted VISCOSITY press returns null, and it is the
\* only one that does; the handler goes on to finalize exactly when the
\* returned next_step is null.
C7_NextStepOf ==
  [a \in {"r", "d", "v", "c"} |->
     CASE a = "r" -> Some(StepDURATION) [] a = "d" -> Some(StepVOLUME)
       [] a = "v" -> Some(StepVISCOSITY) [] a = "c" -> None]

C7_NextStepAndFinalize ==
  flow.called =>
    /\ ~flow.raised => flow.next_step = C7_NextStepOf[flow.action]
    /\ (pc[1] = "finalize") <=> (~flow.raised /\ flow.next_step = None)
    /\ (pc[1] = "finalize") <=> (~flow.raised /\ flow.action = ActionVISCOSITY)

C7_Witness ==
  /\ flow.called /\ flow.action = ActionVISCOSITY /\ ~flow.raised
  /\ pc[1] = "finalize" /\ hsession[1] = 1

\* C8: when insert_record fails during finalize, afterwards the latch is
\* clear, the session is still in the registry with its four answers, no
\* record exists for it, and a later press of the terminal button is
\* accepted (the session is at VISCOSITY with the latch clear).
C8_ReachesInsert(h) ==
  /\ pc[h] = "finalize"
  /\ sess[hsession[h]].rating # None /\ sess[hsession[h]].duration_code # None
  /\ sess[hsession[h]].volume_code # None /\ sess[hsession[h]].viscosity_code # None
  /\ users[sess[hsession[h]].user_id] # None
  /\ users[sess[hsession[h]].user_id][1] \in ValidZones

C8_InsertFailureLeavesSessionRetryable ==
  [][\A h \in Handlers :
       (C8_ReachesInsert(h) /\ FinalizeRecord(h, FALSE)) =>
         LET s == hsession[h] IN
         /\ inserts'[s] = 0
         /\ s \in sessions =>
              /\ s \in sessions'
              /\ sess'[s] = [sess[s] EXCEPT !.finalizing = FALSE]
              /\ sess'[s].step = StepVISCOSITY]_vars

C10_FinalizeWithoutTimezone(h) ==
  /\ pc[h] = "finalize"
  /\ users[sess[hsession[h]].user_id] = None
  /\ \E ok \in BOOLEAN : FinalizeRecord(h, ok)

C10_MissingTimezoneAborts ==
  [][\A h \in Handlers :
       C10_FinalizeWithoutTimezone(h) =>
         /\ UNCHANGED <<sessions, records, inserts, lastrowid>>
         /\ hsession[h] \in sessions =>
              sess'[hsession[h]] = [sess[hsession[h]] EXCEPT !.finalizing = FALSE]]_vars

\* A finalize is pending on a session of the registry whose owner has lost
\* the timezone.
C10_Witness ==
  \E h \in Handlers :
    /\ pc[h] = "finalize"
    /\ hsession[h] \in sessions
    /\ users[sess[hsession[h]].user_id] = None

\* C11: for a user with no timezone, /do creates no session and /week and
\* /month build no summary: both answer with the prompt to set a timezone.
C11_NoTimezoneNoAction ==
  [][\A u \in Users :
       users[u] = None =>
         /\ (\E hit \in SessionIdInputs : DoCommand(u, hit)) =>
              /\ UNCHANGED <<sess, sessions>>
              /\ reply'.kind = "timezone_prompt"
         /\ (\E days \in StatsDays : SendStats(u, days)) =>
              reply'.kind = "timezone_prompt"]_vars

\* C12: a cancel removes the named session from the registry whatever its
\* step and latch; get of the id is then None; every other session of the
\* registry stays, unchanged; cancelling an absent id changes nothing.
C12_CancelRemovesUnconditionally ==
  [][/\ \A id \in sessions : ENABLED (HandleSessionCancel(id) /\ id \notin sessions')
     /\ \A id \in SessionIdInputs :
          HandleSessionCancel(id) =>
            /\ id \notin sessions'
            /\ SessionsGet(id)' = None
            /\ \A t \in sessions \ {id} : t \in sessions' /\ sess'[t] = sess[t]
            /\ id \notin sessions => UNCHANGED vars]_vars

\* A session is in the registry with its latch set: cancel has to remove it.
C12_Witness ==
  \E s \in sessions : sess[s].finalizing /\ sess[s].step = StepVISCOSITY

\* C13: a sweep removes exactly the sessions whose age is greater than the
\* TTL, keeps (unchanged) those whose age is at most the TTL whatever their
\* step and latch, and returns the number it removed; with a TTL of 30 an
\* age of 31 is expired, and ages of 10 and of 30 are not.
C13_SweepRemovesExactlyExpired ==
  [][/\ CleanupSessions =>
          /\ sessions' = {s \in sessions : now - sess[s].created_at_utc <= Ttl}
          /\ \A s \in sessions' : sess'[s] = sess[s]
          /\ cleanup_count = Cardinality(sessions \ sessions')
     /\ expired(NewSession(1, 0), 31, 30)
     /\ ~expired(NewSession(1, 0), 10, 30)
     /\ ~expired(NewSession(1, 0), 30, 30)]_vars

\* The registry holds a session past the TTL and one within it.
C13_Witness ==
  \E s, t \in sessions :
    /\ now - sess[s].created_at_utc > Ttl
    /\ now - sess[t].created_at_utc <= Ttl

\* C14: only the sweep enforces expiry.  A session past the TTL is still
\* returned by get and still accepts its step's press; /do and the step
\* presses remove no session past the TTL; and with the sweep run every
\* Interval, no session is in the registry at an age above Ttl + Interval.
C14_Overage(s) == now - sess[s].created_at_utc > Ttl

C14_ExpiryOnlyBySweep ==
  [][/\ \A s \in sessions :
          /\ now - sess[s].created_at_utc <= Ttl + Interval
          /\ C14_Overage(s) => SessionsGet(s) = Some(s)
          /\ (C14_Overage(s) /\ sess[s].step = StepRATING /\ ~sess[s].finalizing
                /\ pc[1] = "idle") =>
               ENABLED (/\ HandleSessionAction(1, [from_user |-> 1, parts |-> <<"r", s, "1">>])
                        /\ sess'[s].step = StepDURATION)
     /\ \/ \A s \in sessions : C14_Overage(s) => s \in sessions'
        \/ ~ \/ \E u \in Users, hit \in SessionIdInputs : DoCommand(u, hit)
             \/ \E query \in QueryInputs : HandleSessionAction(1, query)]_vars

\* A session is in the registry at the age Ttl + Interval, past its step
\* RATING: the greatest age at which it can be read.
C14_Witness ==
  \E s \in sessions :
    /\ now - sess[s].created_at_utc = Ttl + Interval
    /\ sess[s].step # StepRATING

\* C15: /do by a user with a timezone stores a new session whose id is no id
\* of the registry, at step RATING with its four answers null and the latch
\* clear; the registry afterwards is the previous sessions, each unchanged,
\* plus the new one.
C15_CreateAddsFreshSession ==
  [][\A u \in Users, hit \in SessionIdInputs :
       (users[u] # None /\ DoCommand(u, hit)) =>
         /\ hit \notin sessions
         /\ sessions' = sessions \cup {Len(sess) + 1}
         /\ \A s \in sessions : sess'[s] = sess[s]
         /\ sess'[Len(sess) + 1] = [user_id |-> u, step |-> StepRATING,
                                    created_at_utc |-> now, rating |-> None,
                                    duration_code |-> None, volume_code |-> None,
                                    viscosity_code |-> None, finalizing |-> FALSE]]_vars

\* C16: get(id) is the session stored under id, or None, and a handler that
\* only gets leaves the registry as it is; remove(id) returns what get
\* returns and deletes that entry alone; a second remove(id), or a remove of
\* an id not stored, returns None and leaves the registry as it is.
C16_GetAndRemove ==
  [][/\ \A id \in SessionIdInputs :
          LET first == SessionsRemove(sessions, id)
              second == SessionsRemove(first.sessions, id)
          IN /\ SessionsGet(id) = (IF id \in sessions THEN Some(id) ELSE None)
             /\ first.session = SessionsGet(id)
             /\ first.sessions = sessions \ {id}
             /\ second.session = None
             /\ second.sessions = first.sessions
             /\ id \notin sessions => first.session = None /\ first.sessions = sessions
             /\ HandleSessionCancel(id) => sessions' = sessions \ {id}
     /\ \/ sessions' = sessions
        \/ \A h \in Handlers, query \in QueryInputs : ~HandleSessionAction(h, query)]_vars

\* One id is stored and another was stored and is no longer.
C16_Witness ==
  \E s, t \in 1..Len(sess) : s \in sessions /\ t \notin sessions

\* C18: /do by a user who has a session in the registry adds a second one and
\* leaves the first in place, unchanged; a step press changes no session but
\* the one it names; when both sessions have been completed there are two
\* records.
C18_SecondSessionCoexists ==
  [][/\ \A u \in Users, hit \in SessionIdInputs :
          (DoCommand(u, hit) /\ \E s \in sessions : sess[s].user_id = u) =>
             /\ sessions' = sessions \cup {Len(sess) + 1}
             /\ \A s \in sessions : sess'[s] = sess[s]
     /\ (\A s \in 1..MaxSessions : inserts[s] >= 1) => lastrowid = MaxSessions
     /\ \/ UNCHANGED <<sess, sessions>>
        \/ \A h \in Handlers, query \in QueryInputs :
             HandleSessionAction(h, query) =>
               \A t \in sessions \ {query.parts[2]} : t \in sessions' /\ sess'[t] = sess[t]]_vars

\* C19: a session leaves the registry only in a finalize that inserted its
\* record, in a cancel of its id, or in a sweep that finds its age above the
\* TTL.
C19_LeavesRegistryThreeWays ==
  [][\A s \in sessions :
       s \notin sessions' =>
         \/ /\ inserts'[s] = inserts[s] + 1
            /\ Len(records') = Len(records) + 1
            /\ records'[Len(records')].id = lastrowid'
         \/ HandleSessionCancel(s)
         \/ CleanupSessions /\ now - sess[s].created_at_utc > Ttl]_vars

\* C20: the record a finalize inserts has the session's user_id and its four
\* answers as they are at that moment, the timezone the users table holds
\* for that user at that moment, the current time as UTC timestamp, and a
\* local timestamp that is the same instant.
C20_RecordCarriesSession ==
  [][\A s \in 1..Len(sess) :
       inserts'[s] = inserts[s] + 1 =>
         LET record == records'[Len(records')] IN
         /\ record.user_id = sess[s].user_id
         /\ record.rating = Get(sess[s].rating)
         /\ record.duration_code = Get(sess[s].duration_code)
         /\ record.volume_code = Get(sess[s].volume_code)
         /\ record.viscosity_code = Get(sess[s].viscosity_code)
         /\ record.timezone = Get(users[sess[s].user_id])
         /\ record.timestamp_utc = now
         /\ record.timestamp_local.wall - record.timestamp_local.utcoffset
              = record.timestamp_utc]_vars

\* A record was inserted at a time other than 0, in a zone that is not UTC.
C20_Witness ==
  \E i \in 1..Len(records) :
    /\ records[i].timestamp_utc = 1
    /\ records[i].timestamp_local.utcoffset # 0

\* C17: a caller is inside a registry method's locked region only while it
\* holds the lock, so at most one is; the holder can always take its next
\* step, up to the release; each call leaves the map as the call, run alone,
\* makes it from the map it found; a session enters the map only by its
\* create and leaves it only by a remove of its id, a sweep that found it
\* expired, or a create that stored an equal id.
C17_Inside(t) == call[t].pc \in {"locked", "scanned", "done"}

C17_Effect(c) ==
  CASE c.op = "create" -> (c.seen \ {c.hit}) \cup {c.id}
    [] c.op = "get" -> c.seen
    [] c.op = "remove" -> c.seen \ {c.id}
    [] c.op = "cleanup_expired" ->
         {s \in c.seen : c.at - sess[s].created_at_utc <= Ttl}

C17_RegistryCallsAreSerialized ==
  [][/\ \A t \in Handlers : C17_Inside(t) => lock = t
     /\ lock # 0 => ENABLED \/ \E hit \in SessionIdInputs : Operate(lock, hit)
                            \/ SweepPop(lock)
                            \/ Release(lock)
     /\ \A t \in Handlers : Release(t) => sessions = C17_Effect(call[t])
     /\ \A s \in 1..Len(sess) :
          /\ (s \notin sessions /\ s \in sessions') =>
               \E t \in Handlers : call[t].op = "create" /\ call[t].id = s /\ call[t].pc = "locked"
          /\ (s \in sessions /\ s \notin sessions') =>
               \E t \in Handlers :
                 \/ call[t].op = "remove" /\ call[t].id = s /\ call[t].pc = "locked"
                 \/ call[t].op = "cleanup_expired" /\ s \in call[t].expired /\ call[t].pc = "scanned"
                 \/ call'[t].op = "create" /\ call'[t].hit = s /\ call[t].pc = "locked"]_vars

\* One caller holds the lock after its map operation while another waits to
\* acquire it.
C17_Witness ==
  \E t, u \in Handlers :
    /\ lock = t /\ call[t].pc = "done" /\ call[t].op = "cleanup_expired"
    /\ call[t].expired # {}
    /\ call[u].pc = "acquire" /\ call[u].op = "create"

\* ------------------------------------------------------------ undo
\* The undo presses whose value is a record id, and the id each value names.
C21_RecordIdOf == "1" :> 1 @@ "2" :> 2 @@ "0" :> 0

C21_Undos == {q \in QueryInputs : q.parts[1] = ActionUNDO /\ q.parts[3] \in DOMAIN C21_RecordIdOf}

C21_Rows(rows, u) == {i \in 1..Len(rows) : rows[i].user_id = u}

C21_Owned(u, r) == \E i \in 1..Len(records) : records[i].id = r /\ records[i].user_id = u

\* C21: an undo of record r by the user who owns it lowers that user's
\* record count by exactly one and leaves every other record as it was,
\* and says so; r never comes back, so a second undo of r (as an undo of any
\* id that names no record of the sender) changes nothing and reports that
\* nothing was found.
C21_UndoRemovesOneRecord ==
  [][/\ \A q \in C21_Undos :
          HandleSessionAction(1, q) =>
            LET u == q.from_user
                r == C21_RecordIdOf[q.parts[3]]
            IN IF C21_Owned(u, r)
                 THEN /\ Cardinality(C21_Rows(records', u)) = Cardinality(C21_Rows(records, u)) - 1
                      /\ Len(records') = Len(records) - 1
                      /\ \A i \in 1..Len(records) :
                           records[i].id # r =>
                             \E j \in 1..Len(records') : records'[j] = records[i]
                      /\ reply'.kind = "undo_deleted"
                 ELSE /\ records' = records
                      /\ reply'.kind = "undo_not_found"
     /\ \A r \in 1..lastrowid :
          (\A i \in 1..Len(records) : records[i].id # r) =>
            (\A j \in 1..Len(records') : records'[j].id # r)]_vars

\* The owner's undo has deleted one of two records, and the other is there.
C21_Witness ==
  /\ reply.kind = "undo_deleted"
  /\ reply.user_id = 1
  /\ lastrowid = 2
  /\ Len(records) = 1
  /\ records[1].id # reply.record_id

\* C22: the delete succeeds exactly when a record with the given id exists
\* and belongs to the given user; an undo sent by one user never removes a
\* record of another.
C22_DeleteOnlyOwnRecord ==
  [][\A q \in C21_Undos :
       HandleSessionAction(1, q) =>
         /\ reply'.kind = "undo_deleted" <=>
              \E i \in 1..Len(records) :
                /\ records[i].id = C21_RecordIdOf[q.parts[3]]
                /\ records[i].user_id = q.from_user
         /\ \A i \in 1..Len(records) :
              records[i].user_id # q.from_user =>
                \E j \in 1..Len(records') : records'[j] = records[i]]_vars

\* Another user's undo named a record of user 1, which is still there.
C22_Witness ==
  /\ reply.kind = "undo_not_found"
  /\ reply.user_id = 2
  /\ \E i \in 1..Len(records) : records[i].id = reply.record_id /\ records[i].user_id = 1

\* C28: an undo press is no session transition.  Whatever session id it
\* carries, registered or not, it leaves the registry, every session's step,
\* fields and latch and every handler where they were; and the undo of a
\* record by its owner deletes it although the press names a session that
\* is not in the registry.
C28_UndoIsNoSessionTransition ==
  [][/\ \A q \in C21_Undos :
          HandleSessionAction(1, q) => UNCHANGED <<sess, sessions, pc, hsession, inserts, flow>>
     /\ \A i \in 1..Len(records), s \in SessionIdInputs \ sessions :
          (records[i].id \in {1, 2} /\ pc[1] = "idle") =>
            ENABLED (/\ HandleSessionAction(1, [from_user |-> records[i].user_id,
                                                 parts |-> <<ActionUNDO, s,
                                                             IF records[i].id = 1 THEN "1" ELSE "2">>])
                     /\ Len(records') = Len(records) - 1)]_vars

\* The first session was finalized and removed, its record has been undone,
\* and the second session is in the registry, part-way through its steps.
C28_Witness ==
  /\ reply.kind = "undo_deleted"
  /\ Len(sess) = 2
  /\ sessions = {2}
  /\ sess[2].step = StepVOLUME
  /\ records = <<>>
  /\ lastrowid = 1

\* ------------------------------------------------------- statistics
\* The rows of user u whose UTC time is in the closed window of `days` days
\* that ends now (a day is 24 ticks).
C23_Windowed(u, days) ==
  {i \in 1..Len(records) :
     /\ records[i].user_id = u
     /\ now - 24 * days <= records[i].timestamp_utc
     /\ records[i].timestamp_utc <= now}

\* C23: the total of a summary is the number of the user's records whose
\* UTC timestamp lies in [now - window, now], both ends included; rows of
\* other users and rows outside the window are not counted.
C23_TotalCountsWindow ==
  reply.summary # None =>
    Get(reply.summary).total = Cardinality(C23_Windowed(reply.user_id, reply.days))

\* A week's summary counted the row at the very start of the window and
\* neither the user's older row nor the other user's row inside the window.
C23_Witness ==
  /\ reply.summary # None
  /\ reply.user_id = 1
  /\ reply.days = 7
  /\ Get(reply.summary).total = 1
  /\ \E i, j, k \in 1..Len(records) :
       /\ records[i].user_id = 1 /\ records[i].timestamp_utc = now - 168
       /\ records[j].user_id = 1 /\ records[j].timestamp_utc = now - 169
       /\ records[k].user_id = 2 /\ records[k].timestamp_utc = now - 1

C24_Mine(u) == {i \in 1..Len(records) : records[i].user_id = u}

C24_First(u) ==
  CHOOSE t \in {records[i].timestamp_utc : i \in C24_Mine(u)} :
    \A i \in C24_Mine(u) : t <= records[i].timestamp_utc

C24_RateOf(summary, period) == IF period = 7 THEN summary.avg_week ELSE summary.avg_month

\* C24: for the periods of 7 and 30 days, the rate is available exactly when
\* the user has a record and the first one is at least one period old (one
\* period exactly is enough); it is then the all-time count of the user's
\* records divided by (elapsed / period), which is more than zero.
C24_RateDefinedFromOnePeriod ==
  reply.summary # None =>
    \A period \in {7, 30} :
      LET u == reply.user_id
          rate == C24_RateOf(Get(reply.summary), period)
      IN /\ rate # None <=> (C24_Mine(u) # {} /\ now - C24_First(u) >= 24 * period)
         /\ rate # None =>
              /\ Get(rate).num * (now - C24_First(u))
                   = Cardinality(C24_Mine(u)) * (24 * period) * Get(rate).den
              /\ Get(rate).den > 0
              /\ Get(rate).num > 0

\* The user's first record is exactly seven days old: the weekly rate is
\* there, the monthly one is not.
C24_Witness ==
  /\ reply.summary # None
  /\ C24_Mine(reply.user_id) # {}
  /\ now - C24_First(reply.user_id) = 168
  /\ Get(reply.summary).avg_week # None
  /\ Get(reply.summary).avg_month = None

\* The bands as the claim states them: band b holds the hours from
\* 6 * (b - 1) up to, not including, 6 * b.
C25_InBand(u, days, b) ==
  {i \in C23_Windowed(u, days) :
     LET h == records[i].timestamp_local.wall % 24
     IN 6 * (b - 1) <= h /\ h < 6 * b}

C25_Top(u, days) ==
  SelectSeq(<<1, 2, 3, 4>>, LAMBDA b :
    /\ C25_InBand(u, days, b) # {}
    /\ \A c \in 1..4 : Cardinality(C25_InBand(u, days, c)) <= Cardinality(C25_InBand(u, days, b)))

\* C25: every windowed record's local hour is in exactly one of the four
\* bands; the histogram lists, in band order, exactly the bands with a
\* positive count, each with the number of windowed records in it, so the
\* counts add up to the total; the dominant label names every band at the
\* maximum count, in band order, and is null exactly when no record is in
\* the window.  Hours 1, 5, 13, 23 give 2, 0, 1, 1 and the first band alone.
C25_BandsAndDominantLabel ==
  /\ reply.summary # None =>
       LET u == reply.user_id
           days == reply.days
           summary == Get(reply.summary)
           present == SelectSeq(<<1, 2, 3, 4>>, LAMBDA b : C25_InBand(u, days, b) # {})
       IN /\ \A i \in C23_Windowed(u, days) :
               Cardinality({b \in 1..4 : i \in C25_InBand(u, days, b)}) = 1
          /\ Len(summary.bucket_counts) = Len(present)
          /\ \A k \in 1..Len(present) :
               /\ summary.bucket_counts[k].name = Buckets[present[k]]
               /\ summary.bucket_counts[k].count = Cardinality(C25_InBand(u, days, present[k]))
               /\ summary.bucket_counts[k].count > 0
          /\ Sum([k \in 1..Len(present) |-> summary.bucket_counts[k].count]) = summary.total
          /\ summary.top_bucket = None <=> C23_Windowed(u, days) = {}
          /\ summary.top_bucket # None =>
               Get(summary.top_bucket) = [k \in 1..Len(C25_Top(u, days)) |->
                                            Buckets[C25_Top(u, days)[k]]]
  /\ bucketize_hours(<<1, 5, 13, 23>>) =
       <<[name |-> "(00-06)", count |-> 2], [name |-> "(12-18)", count |-> 1],
         [name |-> "(18-24)", count |-> 1]>>
  /\ pick_top_bucket(bucketize_hours(<<1, 5, 13, 23>>)) = Some(<<"(00-06)">>)

\* Three windowed records at local hours 6, 12 and 18, the first hours of
\* three bands: the label names the three bands.
C25_Witness ==
  /\ reply.summary # None
  /\ Get(reply.summary).total = 3
  /\ Get(reply.summary).top_bucket = Some(<<"(06-12)", "(12-18)", "(18-24)">>)
  /\ \A i \in C23_Windowed(reply.user_id, reply.days) :
       records[i].timestamp_local.wall % 24 \in {6, 12, 18}

C26_Times(u, days) == {records[i].timestamp_utc : i \in C23_Windowed(u, days)}

C26_Latest(u, days) == CHOOSE t \in C26_Times(u, days) : \A x \in C26_Times(u, days) : x <= t

C26_Earliest(u, days) == CHOOSE t \in C26_Times(u, days) : \A x \in C26_Times(u, days) : t <= x

\* C26: with fewer than two windowed records there is no average interval,
\* and the time since the last record is now minus the one record's time,
\* or nothing without a record; with two or more, the average interval is
\* the mean of the gaps between records that follow each other in time
\* (the gaps add up to latest minus earliest, and there is one gap fewer
\* than records) and the time since the last is now minus the latest time.
C26_IntervalsOfWindow ==
  reply.summary # None =>
    LET u == reply.user_id
        days == reply.days
        summary == Get(reply.summary)
        n == Cardinality(C23_Windowed(u, days))
    IN /\ summary.avg_interval = None <=> n < 2
       /\ summary.last_ago = None <=> n = 0
       /\ n >= 1 => Get(summary.last_ago) = now - C26_Latest(u, days)
       /\ n >= 2 =>
            /\ Get(summary.avg_interval).den > 0
            /\ Get(summary.avg_interval).num * (n - 1)
                 = (C26_Latest(u, days) - C26_Earliest(u, days)) * Get(summary.avg_interval).den

\* Three windowed records, two gaps of different lengths.
C26_Witness ==
  /\ reply.summary # None
  /\ Cardinality(C26_Times(reply.user_id, reply.days)) = 3
  /\ Get(reply.summary).avg_interval # None
  /\ Get(reply.summary).last_ago = Some(1)
  /\ C26_Earliest(reply.user_id, reply.days) = now - 168

\* C27: a statistics request whose window holds no record of the user
\* sends the "no records" text, not the summary, also when a rate over the
\* whole history is available; with a record in the window it sends the
\* summary.
C27_EmptyWindowSendsNoData ==
  reply.kind \in {"stats", "stats_empty"} =>
    (reply.kind = "stats_empty" <=> C23_Windowed(reply.user_id, reply.days) = {})

\* The week holds nothing, yet the history is long enough for both rates.
C27_Witness ==
  /\ reply.kind = "stats_empty"
  /\ reply.days = 7
  /\ Get(reply.summary).avg_week # None
  /\ Get(reply.summary).avg_month # None

\* ------------------------------------------------------------ schema
\* C29: opening a database whose stored schema version is not the current
\* one aborts the start, whatever the stored version.
C29_VersionMismatchIsFatal ==
  [][(/\ schema.status = "closed"
      /\ schema.version # None
      /\ Get(schema.version) # SCHEMA_VERSION
      /\ EnsureSchema)
     => schema'.status = "aborted"]_vars

\* ------------------------------------------------- cancel and finalize
\* A session that left the registry with no record inserted from it, and
\* not because a create with an equal id displaced it: a cancel or a sweep
\* removed it.
C30_Removed(s) ==
  /\ s \notin sessions
  /\ inserts[s] = 0
  /\ \A r \in 1..Len(sess) :
       r # s => ~(/\ sess[r].user_id = sess[s].user_id
                  /\ sess[r].created_at_utc = sess[s].created_at_utc)

\* C30: once a cancel or a sweep has removed a session from the registry,
\* no record is inserted from it, also when a finalize of that session was
\* suspended before its insert at the time.
C30_NoInsertAfterRemoval ==
  [][\A s \in 1..Len(sess) : C30_Removed(s) => inserts'[s] = inserts[s]]_vars

\* ---------------------------------------------------- unreachable branches
\* C31: the latch is set and then cleared, or the session removed, with no
\* await in between, so no press finds a session in the registry with the
\* latch set: the "already completed" answer is never given.
C31_LatchNeverSeenInRegistry ==
  \A id \in SessionIds : SessionsGet(id) # None => ~sess[Get(SessionsGet(id))].finalizing

\* C32: with the clock advancing and the sweep run when it is due, every
\* session that enters the registry is eventually out of it, whatever is or
\* is not pressed on it and whether or not its latch is set.
C32_EverySessionLeaves ==
  \A s \in SessionIds : (s \in sessions) ~> (s \notin sessions)

\* A sweep has just removed the only session created, from which no record
\* was inserted; the user's timezone names no zone, so a finalize of the
\* session could only leave it in the registry with the latch set.
C32_Witness ==
  /\ Len(sess) = 1
  /\ sessions = {}
  /\ inserts[1] = 0
  /\ schedule.last = now
  /\ now > 0
  /\ users[1] = Some("bogus")

\* C33: whenever a handler is about to run finalize on a session, the
\* session's rating, duration, volume and viscosity are all set, so the
\* "incomplete" branch of finalize is never taken, whatever callbacks arrive
\* and however the handlers interleave.
C33_FinalizeEnteredComplete ==
  \A h \in Handlers :
    pc[h] = "finalize" =>
      /\ hsession[h] \in 1..Len(sess)
      /\ sess[hsession[h]].rating # None
      /\ sess[hsession[h]].duration_code # None
      /\ sess[hsession[h]].volume_code # None
      /\ sess[hsession[h]].viscosity_code # None

\* Two handlers are about to run finalize on the same session.
C33_Witness ==
  /\ pc[1] = "finalize"
  /\ pc[2] = "finalize"
  /\ hsession[1] = hsession[2]

\* C34: the owner of every session of the registry, and of every session a
\* handler is about to finalize, has a timezone: /do creates sessions only
\* for users with one, and no handler or job deletes a users row or clears
\* its timezone.  So finalize never takes its "no timezone" branch.
C34_OwnersHaveTimezone ==
  /\ \A s \in sessions : users[sess[s].user_id] # None
  /\ \A h \in Handlers : pc[h] = "finalize" => users[sess[hsession[h]].user_id] # None

\* A finalize is pending on a session of the registry after its owner chose
\* another timezone string.
C34_Witness ==
  \E h \in Handlers :
    /\ pc[h] = "finalize"
    /\ hsession[h] \in sessions
    /\ users[sess[hsession[h]].user_id] = Some("bogus")

\* ------------------------------------------------------------ ownership
\* C35: a press on a step button that carries the id of a session of the
\* registry and comes from a sender other than the session's owner leaves
\* the session as it is and starts no finalize of it, so no record of the
\* owner comes of it.
C35_OnlyOwnerAdvances ==
  [][\A h \in Handlers, q \in ForeignPresses :
       (/\ q.parts[2] \in sessions
        /\ sess[q.parts[2]].user_id # q.from_user
        /\ HandleSessionAction(h, q))
       => /\ sess'[q.parts[2]] = sess[q.parts[2]]
          /\ pc'[h] # "finalize"]_vars

\* -------------------------------------------------------------- records
\* C36: the records of a user are the successful finalizes of the user's
\* sessions less the user's successful undos.  Step by step: the table
\* changes only by a finalize that inserts (one row more, of the session's
\* owner, the insert counted) or by an undo of a row's owner that deletes it
\* (one row less); every other step, and every row not concerned, is left as
\* it was.
C36_RecordsAreFinalizesLessUndos ==
  [][\/ records' = records /\ inserts' = inserts
     \/ /\ \E h \in Handlers :
             /\ FinalizeRecord(h, TRUE)
             /\ pc'[h] = "confirm"
             /\ records'[Len(records')].user_id = sess[hsession[h]].user_id
             /\ inserts' = [inserts EXCEPT ![hsession[h]] = @ + 1]
        /\ Len(records') = Len(records) + 1
        /\ SubSeq(records', 1, Len(records)) = records
     \/ /\ inserts' = inserts
        /\ Len(records') = Len(records) - 1
        /\ \A j \in 1..Len(records') : \E i \in 1..Len(records) : records'[j] = records[i]
        /\ \E h \in Handlers, q \in C21_Undos :
             /\ HandleSessionAction(h, q)
             /\ \E i \in 1..Len(records) :
                  /\ records[i].user_id = q.from_user
                  /\ \A j \in 1..Len(records') : records'[j] # records[i]]_vars

\* Two finalizes and one undo: one record.
C36_Witness ==
  /\ inserts[1] + inserts[2] = 2
  /\ lastrowid = 2
  /\ Len(records) = 1

\* C37: the weekly and the monthly rate of a summary are those of the
\* summary of the other window built at the same instant, and a summary
\* with a monthly rate has a weekly rate.
C37_RatesIgnoreWindow ==
  reply.summary # None =>
    /\ \A days \in StatsDays :
         /\ build_summary(reply.user_id, days).avg_week = Get(reply.summary).avg_week
         /\ build_summary(reply.user_id, days).avg_month = Get(reply.summary).avg_month
    /\ Get(reply.summary).avg_month # None => Get(reply.summary).avg_week # None

\* The two windows hold different numbers of the user's records, and both
\* rates are there.
C37_Witness ==
  /\ reply.summary # None
  /\ Get(reply.summary).avg_month # None
  /\ Cardinality(C23_Windowed(reply.user_id, 7)) = 1
  /\ Cardinality(C23_Windowed(reply.user_id, 30)) = 2

\* C38: with two or more records in the window, ordered by time, the
\* average interval is (latest - earliest) / (n - 1), and it is not
\* negative.
C38_AverageIsSpanOverGaps ==
  (reply.summary # None /\ Cardinality(C23_Windowed(reply.user_id, reply.days)) >= 2) =>
    LET u == reply.user_id
        days == reply.days
        avg == Get(Get(reply.summary).avg_interval)
        n == Cardinality(C23_Windowed(u, days))
    IN /\ avg.den = n - 1
       /\ avg.num = C26_Latest(u, days) - C26_Earliest(u, days)
       /\ avg.num >= 0

\* Three records of the window, inserted with the clock set back in
\* between: the row with the greatest id is the earliest.
C38_Witness ==
  /\ reply.summary # None
  /\ reply.user_id = 1
  /\ Len(records) = 3
  /\ C23_Windowed(1, reply.days) = {1, 2, 3}
  /\ records[3].timestamp_utc < records[1].timestamp_utc
  /\ records[1].timestamp_utc < records[2].timestamp_utc

====
